---- MODULE Spec2Model ----
(***************************************************************************)
(* Model of python/pyspark/sql/maprpatch.py: mapr_session_patch attaches   *)
(* loadFromMapRDB, saveToMapRDB and insertToMapRDB to a session handle.    *)
(* The three closures share the cells of the enclosing call                *)
(* (default_sample_size, default_id_field, buffer_writes, mapr_j_session). *)
(*                                                                         *)
(* External collaborators (the py4j gateway, the DataFrameReader, the      *)
(* native MapRDBJavaSession) are modelled by what this file asks of them:  *)
(* the request that reaches them is recorded, their outcome (return or     *)
(* raise) is a nondeterministic input.                                     *)
(***************************************************************************)
EXTENDS Integers, FiniteSets, Sequences, TLC

\* ------------------------------------------------------------ bounds
MaxAdapters == 2          \* successful mapr_session_patch calls per run
NumThreads == 2           \* caller threads of the threaded specification

\* --------------------------------------------------- program constants
DefaultSampleSize == 1000 \* default_sample_size=1000.0
DefaultIdField == "_id"
DefaultBufferWrites == TRUE

\* ------------------------------------------------------- input domains
\* An optional argument is {} when the caller omits it and {v} when passed.
Opt(S) == {{}} \cup {{x} : x \in S}
Val(opt, default) == IF opt = {} THEN default ELSE CHOOSE x \in opt : TRUE

Threads == 1..NumThreads
Caller == 1
Tables == {"/t"}
SampleSizes == {500}
IdFields == {"custom_id"}
Schemas == {"", "id INT"}         \* "" is a falsy schema
Faults == {"none", "import", "construct"}

\* <<table_name, id_field_path, create_table, bulk_insert>> of a write call
WriteInputs == Tables \X Opt(IdFields) \X Opt(BOOLEAN) \X Opt(BOOLEAN)
PlainWriteInputs == {<<tbl, {}, {}, {}>> : tbl \in Tables}

Capabilities == {"loadFromMapRDB", "saveToMapRDB", "insertToMapRDB"}
OrigAttrs == {"read", "_jsparkSession"}

VARIABLES
    attrs,      \* the session handle's attributes: name -> [fn, env]
    imported,   \* gw.jvm has the connector class imported (line 7)
    nAdapters,  \* native connector objects constructed so far (line 9)
    env,        \* env[i]: the closure cells of the i-th construction
    ctor,       \* ctor[i]: the arguments the i-th construction was given
    jflag,      \* jflag[i]: bufferWrites inside the i-th native object
    pc,         \* pc[t]: "idle", "pushed" (between lines 53/54, 72/73), "done"
    frame,      \* frame[t]: the call thread t is making or made last
    ext,        \* ext[t]: the request that call sent to the reader / native object
    result,     \* result[t]: what the call gave back to its caller
    hist,       \* hist[t]: the push of the flag the call made
    setReq,     \* the latest set_buffer_writes call: [env, bw] (env 0: none)
    lastPush    \* lastPush[i]: the thread that pushed into native object i last

vars == <<attrs, imported, nAdapters, env, ctor, jflag, pc, frame, ext,
          result, hist, setReq, lastPush>>

\* -------------------------------------------------------------- values
NoFrame ==
    [fn |-> "none", env |-> 0, epoch |-> 0, fault |-> "none",
     table_name |-> "", schema |-> {}, sample_size |-> {},
     id_field_path |-> {}, create_table |-> {}, bulk_insert |-> {}]

NoExt ==
    [kind |-> "none", tableName |-> "", sampleSize |-> 0, bufferWrites |-> FALSE,
     schema |-> {}, idField |-> "", createTable |-> FALSE, bulkInsert |-> FALSE]

NoResult == [outcome |-> "none", value |-> "none", built |-> "none"]

NoHist == [pushes |-> 0, pushed |-> FALSE, asked |-> {}]

Raised(error) == [outcome |-> "raised", value |-> error, built |-> "none"]

Free(t) == pc[t] \in {"idle", "done"}

\* ------------------------------------------- mapr_session_patch (4-75)
\* The cells a construction captures (line 4 defaults, line 9 native object).
NewEnv(a, id) ==
    [default_sample_size |-> Val(a.default_sample_size, DefaultSampleSize),
     default_id_field |-> Val(a.default_id_field, DefaultIdField),
     buffer_writes |-> Val(a.buffer_writes, DefaultBufferWrites),
     mapr_j_session |-> id]

\* original_session.<name> = <closure over the cells of construction id>
Attach(a, name, id) ==
    [n \in (DOMAIN a) \cup {name} |->
        IF n = name THEN [fn |-> name, env |-> id] ELSE a[n]]

\* Variant: the setter is attached as a fourth attribute.
Attached_exposesSetter(a, id) ==
    Attach(Attach(Attach(Attach(a, "loadFromMapRDB", id), "saveToMapRDB", id),
                  "insertToMapRDB", id), "set_buffer_writes", id)

\* Variant: an attribute the session already has is left as it is.
Attached_ifAbsent(a, id) ==
    LET keep(b, name) == IF name \in DOMAIN b THEN b ELSE Attach(b, name, id)
    IN  keep(keep(keep(a, "loadFromMapRDB"), "saveToMapRDB"), "insertToMapRDB")

\* lines 37, 56, 75: the three assignments, no existence check
Attached(a, id) ==
    Attach(Attach(Attach(a, "loadFromMapRDB", id), "saveToMapRDB", id),
           "insertToMapRDB", id)

\* Variant: loadFromMapRDB is attached before the native object is built.
PatchAttrs_attachFirst(a, id, fault) ==
    IF fault = "import" THEN a
    ELSE IF fault = "construct" THEN Attach(a, "loadFromMapRDB", id)
    ELSE Attach(Attach(Attach(a, "loadFromMapRDB", id), "saveToMapRDB", id),
                "insertToMapRDB", id)

\* The session's attributes after the body ran with the given fault: lines 7
\* and 9 raise before line 37 is reached.
PatchAttrs(a, id, fault) ==
    IF fault = "import" THEN a
    ELSE IF fault = "construct" THEN a
    ELSE Attached(a, id)

PatchError(fault) ==
    IF fault = "import" THEN "ImportError"
    ELSE IF fault = "construct" THEN "ConstructError"
    ELSE "none"

\* The constructions some closure or call still refers to. Rebinding the
\* attributes (37, 56, 75) releases the closures bound before, and with them
\* their cells and native object.
Referenced(a, fr) ==
    ({a[n].env : n \in DOMAIN a} \cup {fr[t].env : t \in Threads}) \ {0}

Kept(old, keep, id, new) ==
    [i \in keep |-> IF i = id THEN new ELSE old[i]]

\* ------------------------------------------------------ inner functions
\* Variant: the setter declares buffer_writes nonlocal.
SetterCells_nonlocal(e, bw) == [e EXCEPT !.buffer_writes = bw]

\* set_buffer_writes (11-12): `buffer_writes=bw` binds a name local to the
\* setter; the cells of the enclosing call are left as they were.
SetterCells(e, bw) == e

\* Variant: the sampleSize option is always the construction's default.
ReaderOptions_defaultSample(f) ==
    [NoExt EXCEPT
        !.kind = "read",
        !.tableName = f.table_name,
        !.sampleSize = env[f.env].default_sample_size,
        !.bufferWrites = env[f.env].buffer_writes,
        !.schema = IF f.schema \in {{}, {""}} THEN {} ELSE f.schema]

\* lines 26-30: the options given to original_session.read; line 14 binds
\* sample_size to default_sample_size when the caller omits it; lines 32-33
\* apply the schema only when it is truthy (schema: {} when none is applied).
ReaderOptions(f) ==
    [NoExt EXCEPT
        !.kind = "read",
        !.tableName = f.table_name,
        !.sampleSize = Val(f.sample_size, env[f.env].default_sample_size),
        !.bufferWrites = env[f.env].buffer_writes,
        !.schema = IF f.schema \in {{}, {""}} THEN {} ELSE f.schema]

\* Variant: the push is left out.
PushFlag_skipped(j, i, v) == j

\* mapr_j_session.setBufferWrites(v) on native object i
PushFlag(j, i, v) == [j EXCEPT ![i] = v]

\* lines 53 / 72: the value handed to setBufferWrites
FlagToPush(i) == env[i].buffer_writes

\* Variant: an omitted id_field_path becomes "_id", not default_id_field.
WriteArgs_literalId(f) ==
    [NoExt EXCEPT
        !.kind = IF f.fn = "saveToMapRDB" THEN "save" ELSE "insert",
        !.tableName = f.table_name,
        !.idField = Val(f.id_field_path, DefaultIdField),
        !.createTable = Val(f.create_table, FALSE),
        !.bulkInsert = Val(f.bulk_insert, FALSE),
        !.bufferWrites = jflag[f.env]]

\* lines 54 / 73: the arguments of the native save / insert; lines 40 / 59
\* bind the omitted ones (default_id_field, False, False). bufferWrites is
\* the setting the native object holds when the write runs.
WriteArgs(f) ==
    [NoExt EXCEPT
        !.kind = IF f.fn = "saveToMapRDB" THEN "save" ELSE "insert",
        !.tableName = f.table_name,
        !.idField = Val(f.id_field_path, env[f.env].default_id_field),
        !.createTable = Val(f.create_table, FALSE),
        !.bulkInsert = Val(f.bulk_insert, FALSE),
        !.bufferWrites = jflag[f.env]]

\* Variant: the wrapper is returned.
WriteReturn_returnsWrapper ==
    [outcome |-> "returned", value |-> "DataFrame", built |-> "DataFrame(jdf, wrapped)"]

\* lines 54 / 73 when the native call returns: the wrapper is built as an
\* expression statement and the function falls off its end.
WriteReturn ==
    [outcome |-> "returned", value |-> "None", built |-> "DataFrame(jdf, wrapped)"]

\* ---------------------------------------------------------------- Init
FreshAttrs == [n \in OrigAttrs |-> [fn |-> n, env |-> 0]]

NoCells == [i \in {} |-> 0]

Init ==
    /\ attrs = FreshAttrs
    /\ imported = FALSE
    /\ nAdapters = 0
    /\ env = NoCells
    /\ ctor = NoCells
    /\ jflag = NoCells
    /\ lastPush = NoCells
    /\ pc = [t \in Threads |-> "idle"]
    /\ frame = [t \in Threads |-> NoFrame]
    /\ ext = [t \in Threads |-> NoExt]
    /\ result = [t \in Threads |-> NoResult]
    /\ hist = [t \in Threads |-> NoHist]
    /\ setReq = [env |-> 0, bw |-> FALSE]

PatchInputs ==
    [default_sample_size : Opt(SampleSizes), default_id_field : Opt(IdFields),
     buffer_writes : Opt(BOOLEAN)]

\* ------------------------------------------------------------- actions
\* mapr_session_patch(original_session, wrapped, gw, ...), lines 4-75.
\* fault: where the bridge fails; j0: the setting a new native object has.
mapr_session_patch(t) ==
    /\ Free(t)
    /\ \E a \in PatchInputs, fault \in Faults, j0 \in BOOLEAN :
        LET id == nAdapters + 1
            fr == [frame EXCEPT ![t] =
                    [NoFrame EXCEPT !.fn = "mapr_session_patch",
                                    !.env = IF fault = "none" THEN id ELSE 0,
                                    !.epoch = nAdapters,
                                    !.fault = fault]]
            at == PatchAttrs(attrs, id, fault)
            keep == Referenced(at, fr)
        IN  /\ fault = "none" => nAdapters < MaxAdapters
            /\ imported' = (imported \/ fault # "import")
            /\ IF fault = "none"
               THEN /\ nAdapters' = id
                    /\ env' = Kept(env, keep, id, NewEnv(a, id))
                    /\ ctor' = Kept(ctor, keep, id, a)
                    /\ jflag' = Kept(jflag, keep, id, j0)
                    /\ lastPush' = Kept(lastPush, keep, id, 0)
               ELSE UNCHANGED <<nAdapters, env, ctor, jflag, lastPush>>
            /\ attrs' = at
            /\ frame' = fr
            /\ result' = [result EXCEPT ![t] =
                    IF fault = "none"
                    THEN [outcome |-> "returned", value |-> "None", built |-> "none"]
                    ELSE Raised(PatchError(fault))]
    /\ pc' = [pc EXCEPT ![t] = "done"]
    /\ ext' = [ext EXCEPT ![t] = NoExt]
    /\ hist' = [hist EXCEPT ![t] = NoHist]
    /\ UNCHANGED setReq

\* set_buffer_writes(bw), lines 11-12, of the construction whose closures
\* the session carries.
set_buffer_writes(t) ==
    /\ Free(t)
    /\ "saveToMapRDB" \in DOMAIN attrs
    /\ \E bw \in BOOLEAN :
        LET i == attrs["saveToMapRDB"].env
        IN  /\ env' = [env EXCEPT ![i] = SetterCells(env[i], bw)]
            /\ setReq' = [env |-> i, bw |-> bw]
    /\ UNCHANGED <<attrs, imported, nAdapters, ctor, jflag, pc, frame, ext,
                   result, hist, lastPush>>

\* original_session.loadFromMapRDB(table_name, schema, sample_size), 14-35.
loadFromMapRDB(t) ==
    /\ Free(t)
    /\ "loadFromMapRDB" \in DOMAIN attrs
    /\ \E tbl \in Tables, sch \in Opt(Schemas), s \in Opt(SampleSizes),
          ok \in BOOLEAN :
        LET f == [NoFrame EXCEPT
                    !.fn = "loadFromMapRDB",
                    !.env = attrs["loadFromMapRDB"].env,
                    !.epoch = nAdapters,
                    !.table_name = tbl,
                    !.schema = sch,
                    !.sample_size = s]
        IN  /\ frame' = [frame EXCEPT ![t] = f]
            /\ ext' = [ext EXCEPT ![t] = ReaderOptions(f)]
            /\ result' = [result EXCEPT ![t] =
                    IF ok THEN [outcome |-> "returned", value |-> "DataFrame",
                                built |-> "none"]
                    ELSE Raised("ReadError")]
    /\ pc' = [pc EXCEPT ![t] = "done"]
    /\ hist' = [hist EXCEPT ![t] = NoHist]
    /\ UNCHANGED <<attrs, imported, nAdapters, env, ctor, jflag, setReq, lastPush>>

\* Lines 40 + 53 (fn = saveToMapRDB) and 59 + 72 (fn = insertToMapRDB): the
\* call binds its parameters and pushes buffer_writes into the native object.
WriteCall(t, fn, inputs) ==
    /\ Free(t)
    /\ fn \in DOMAIN attrs
    /\ \E in \in inputs :
        LET i == attrs[fn].env
            f == [NoFrame EXCEPT
                    !.fn = fn,
                    !.env = i,
                    !.epoch = nAdapters,
                    !.table_name = in[1],
                    !.id_field_path = in[2],
                    !.create_table = in[3],
                    !.bulk_insert = in[4]]
        IN  /\ frame' = [frame EXCEPT ![t] = f]
            /\ jflag' = PushFlag(jflag, i, FlagToPush(i))
            /\ hist' = [hist EXCEPT ![t] =
                    [pushes |-> 1, pushed |-> FlagToPush(i),
                     asked |-> IF setReq.env = i THEN {setReq.bw} ELSE {}]]
            /\ lastPush' = [lastPush EXCEPT ![i] = t]
    /\ pc' = [pc EXCEPT ![t] = "pushed"]
    /\ ext' = [ext EXCEPT ![t] = NoExt]
    /\ result' = [result EXCEPT ![t] = NoResult]
    /\ UNCHANGED <<attrs, imported, nAdapters, env, ctor, setReq>>

\* Lines 54 / 73: the native save / insert runs, returns or raises, and the
\* call ends.
NativeWrite(t) ==
    /\ pc[t] = "pushed"
    /\ \E ok \in BOOLEAN :
        /\ ext' = [ext EXCEPT ![t] = WriteArgs(frame[t])]
        /\ result' = [result EXCEPT ![t] =
                IF ok THEN WriteReturn ELSE Raised("NativeError")]
    /\ pc' = [pc EXCEPT ![t] = "done"]
    /\ UNCHANGED <<attrs, imported, nAdapters, env, ctor, jflag, frame, hist,
                   setReq, lastPush>>

\* ------------------------------------------------------ specifications
\* One caller: the program as the source runs it, call after call.
saveToMapRDB == WriteCall(Caller, "saveToMapRDB", WriteInputs)

insertToMapRDB == WriteCall(Caller, "insertToMapRDB", WriteInputs)

Next ==
    \/ mapr_session_patch(Caller)
    \/ set_buffer_writes(Caller)
    \/ loadFromMapRDB(Caller)
    \/ saveToMapRDB
    \/ insertToMapRDB
    \/ NativeWrite(Caller)

Spec == Init /\ [][Next]_vars

\* Several threads calling saveToMapRDB(df, table) and insertToMapRDB(df,
\* table) of one construction.
InitThreaded ==
    \E a \in PatchInputs, j0 \in BOOLEAN :
        /\ attrs = PatchAttrs(FreshAttrs, 1, "none")
        /\ imported = TRUE
        /\ nAdapters = 1
        /\ env = Kept(NoCells, {1}, 1, NewEnv(a, 1))
        /\ ctor = Kept(NoCells, {1}, 1, a)
        /\ jflag = Kept(NoCells, {1}, 1, j0)
        /\ lastPush = Kept(NoCells, {1}, 1, 0)
        /\ pc = [t \in Threads |-> "idle"]
        /\ frame = [t \in Threads |-> NoFrame]
        /\ ext = [t \in Threads |-> NoExt]
        /\ result = [t \in Threads |-> NoResult]
        /\ hist = [t \in Threads |-> NoHist]
        /\ setReq = [env |-> 0, bw |-> FALSE]

ThreadedSave(t) == WriteCall(t, "saveToMapRDB", PlainWriteInputs)

ThreadedInsert(t) == WriteCall(t, "insertToMapRDB", PlainWriteInputs)

ThreadedNext ==
    \E t \in Threads :
        \/ set_buffer_writes(t)
        \/ ThreadedSave(t)
        \/ ThreadedInsert(t)
        \/ NativeWrite(t)

ThreadedSpec == InitThreaded /\ [][ThreadedNext]_vars

\* ---------------------------------------------------------- properties
Writers == {"saveToMapRDB", "insertToMapRDB"}

\* the values construction i was given, omitted ones at the line 4 defaults
GivenSampleSize(i) == Val(ctor[i].default_sample_size, DefaultSampleSize)
GivenIdField(i) == Val(ctor[i].default_id_field, DefaultIdField)
GivenBufferWrites(i) == Val(ctor[i].buffer_writes, DefaultBufferWrites)

\* C1: when the latest set_buffer_writes call before a saveToMapRDB or
\* insertToMapRDB call passed v, the native object's buffering flag is v once
\* the call has pushed it and before the native save / insert is invoked,
\* whatever buffer_writes the construction was given.
C1_SetterValueReachesNative ==
    \A t \in Threads :
        (frame[t].fn \in Writers /\ pc[t] = "pushed" /\ hist[t].asked # {})
            => jflag[frame[t].env] \in hist[t].asked

\* C2: loadFromMapRDB(table) with no schema and no sample size reads with
\* tableName = table, sampleSize = the construction's default sample size and
\* bufferWrites = the current buffer_writes, and applies no schema; with
\* sample_size passed, sampleSize is the value passed.
C2_LoadOptions ==
    \A t \in Threads :
        LET f == frame[t] IN
        f.fn = "loadFromMapRDB" =>
            /\ ext[t].kind = "read"
            /\ (f.schema = {} /\ f.sample_size = {}) =>
                    /\ ext[t].tableName = f.table_name
                    /\ ext[t].sampleSize = GivenSampleSize(f.env)
                    /\ ext[t].bufferWrites = env[f.env].buffer_writes
                    /\ ext[t].schema = {}
            /\ f.sample_size # {} =>
                    /\ ext[t].tableName = f.table_name
                    /\ ext[t].sampleSize \in f.sample_size

C2_Witness ==
    \E t \in Threads :
        /\ frame[t].fn = "loadFromMapRDB"
        /\ pc[t] = "done"
        /\ frame[t].schema = {}
        /\ frame[t].sample_size = {}
        /\ ctor[frame[t].env].default_sample_size # {}
        /\ ext[t].sampleSize # DefaultSampleSize

\* C3: the native save / insert of a call that omits id_field_path gets the
\* construction's default identifier field ("_id" when the construction was
\* given none), and False for an omitted create_table and bulk_insert; a
\* call that passes id_field_path hands exactly that value on.
C3_WriteArguments ==
    \A t \in Threads :
        LET f == frame[t] IN
        (f.fn \in Writers /\ pc[t] = "done") =>
            /\ ext[t].kind = (IF f.fn = "saveToMapRDB" THEN "save" ELSE "insert")
            /\ ext[t].tableName = f.table_name
            /\ f.id_field_path = {} => ext[t].idField = GivenIdField(f.env)
            /\ (f.id_field_path = {} /\ ctor[f.env].default_id_field = {})
                    => ext[t].idField = "_id"
            /\ f.create_table = {} => ext[t].createTable = FALSE
            /\ f.bulk_insert = {} => ext[t].bulkInsert = FALSE
            /\ f.id_field_path # {} => ext[t].idField \in f.id_field_path

C3_Witness ==
    \E t \in Threads :
        /\ frame[t].fn = "insertToMapRDB"
        /\ pc[t] = "done"
        /\ frame[t].id_field_path = {}
        /\ frame[t].create_table = {}
        /\ frame[t].bulk_insert = {}
        /\ ctor[frame[t].env].default_id_field # {}
        /\ ext[t].idField # "_id"

C5_PatchFrame ==
    [][nAdapters' = nAdapters + 1 =>
        /\ DOMAIN attrs' = (DOMAIN attrs) \cup Capabilities
        /\ \A n \in Capabilities : attrs'[n] = [fn |-> n, env |-> nAdapters']
        /\ \A n \in (DOMAIN attrs) \ Capabilities : attrs'[n] = attrs[n]]_vars

C5_Witness ==
    /\ nAdapters = 1
    /\ frame[Caller].fn = "mapr_session_patch"
    /\ result[Caller].outcome = "returned"
    /\ DOMAIN attrs = OrigAttrs \cup Capabilities
    /\ \A n \in OrigAttrs : attrs[n] = FreshAttrs[n]

\* C6: mapr_session_patch on a session that already carries the three
\* capabilities returns without error when the bridge does not fail, and
\* from then on every call through the session runs on the latest
\* construction: its cells, its defaults, its native object.
C6_RepatchReplaces ==
    /\ nAdapters >= 1 => \A n \in Capabilities : attrs[n].env = nAdapters
    /\ \A t \in Threads :
        LET f == frame[t] IN
        /\ (f.fn = "mapr_session_patch" /\ f.fault = "none") =>
                /\ result[t].outcome = "returned"
                /\ f.env = f.epoch + 1
        /\ f.fn \in Capabilities =>
                /\ f.env = f.epoch
                /\ env[f.env].mapr_j_session = f.epoch
        /\ (f.fn = "loadFromMapRDB" /\ f.sample_size = {}) =>
                ext[t].sampleSize = GivenSampleSize(f.epoch)
        /\ f.fn = "loadFromMapRDB" =>
                ext[t].bufferWrites = GivenBufferWrites(f.epoch)
        /\ f.fn \in Writers =>
                /\ hist[t].pushed = GivenBufferWrites(f.epoch)
                /\ lastPush[f.epoch] = t
        /\ (f.fn \in Writers /\ pc[t] = "done" /\ f.id_field_path = {}) =>
                ext[t].idField = GivenIdField(f.epoch)

C6_Witness ==
    \E t \in Threads :
        /\ frame[t].fn \in Writers
        /\ pc[t] = "done"
        /\ frame[t].epoch = 2
        /\ frame[t].id_field_path = {}
        /\ ext[t].idField = "custom_id"

\* C7: with saveToMapRDB / insertToMapRDB calls of several threads on one
\* construction, the push and the native write separate steps: when call A
\* has pushed and not yet written, and call B pushed after it, B's caller
\* having asked through the setter for a value other than the one A pushed,
\* the native object no longer holds the value A pushed.
C7_LaterPushOverwrites ==
    \A a \in Threads, b \in Threads :
        (/\ a # b
         /\ pc[a] = "pushed"
         /\ frame[b].fn \in Writers
         /\ frame[b].env = frame[a].env
         /\ lastPush[frame[a].env] = b
         /\ hist[b].asked # {}
         /\ hist[a].pushed \notin hist[b].asked)
            => jflag[frame[a].env] # hist[a].pushed

\* What the source does in C7's place: while a call has pushed and not yet
\* written, the native object holds the value that call pushed, whichever
\* other calls of the same construction pushed in between.
PushedValueSurvives ==
    \A a \in Threads :
        pc[a] = "pushed" => jflag[frame[a].env] = hist[a].pushed

\* C8: whatever set_buffer_writes calls were made, the bufferWrites option
\* of every load and the value every save and insert pushes to the native
\* object are the buffer_writes the construction was given.
C8_SetterHasNoEffect ==
    \A t \in Threads :
        LET f == frame[t] IN
        /\ f.fn = "loadFromMapRDB" => ext[t].bufferWrites = GivenBufferWrites(f.env)
        /\ f.fn \in Writers =>
                /\ hist[t].pushed = GivenBufferWrites(f.env)
                /\ pc[t] = "done" => ext[t].bufferWrites = GivenBufferWrites(f.env)

C8_Witness ==
    \E t \in Threads :
        /\ frame[t].fn \in Writers
        /\ pc[t] = "done"
        /\ hist[t].asked # {}
        /\ hist[t].pushed \notin hist[t].asked
        /\ setReq.env = frame[t].env

\* C9: a mapr_session_patch call in which the import or the construction of
\* the native object fails raises that error to its caller and leaves the
\* session's attributes as they were; the session never carries only some
\* of the three capabilities.
C9_FailedPatchLeavesSession ==
    [][\A t \in Threads :
        (frame'[t].fn = "mapr_session_patch" /\ frame'[t].fault # "none") =>
            /\ result'[t] = Raised(PatchError(frame'[t].fault))
            /\ attrs' = attrs
            /\ Capabilities \cap DOMAIN attrs' \in {{}, Capabilities}]_vars

C9_Witness ==
    /\ frame[Caller].fn = "mapr_session_patch"
    /\ frame[Caller].fault = "construct"
    /\ result[Caller].outcome = "raised"
    /\ imported
    /\ Capabilities \cap DOMAIN attrs = {}

\* C10: every saveToMapRDB and insertToMapRDB call pushes buffer_writes into
\* the native object once, before the native write is invoked; the native
\* write runs under the pushed setting, and when it raises, its error reaches
\* the caller as it is and the native object keeps the pushed setting.
C10_PushBeforeWrite ==
    \A t \in Threads :
        LET f == frame[t] IN
        f.fn \in Writers =>
            /\ hist[t].pushes = 1
            /\ hist[t].pushed = env[f.env].buffer_writes
            /\ pc[t] = "pushed" =>
                    /\ ext[t].kind = "none"
                    /\ result[t].outcome = "none"
                    /\ jflag[f.env] = hist[t].pushed
            /\ pc[t] = "done" =>
                    /\ ext[t].kind # "none"
                    /\ ext[t].bufferWrites = hist[t].pushed
                    /\ result[t].outcome \in {"returned", "raised"}
                    /\ result[t].outcome = "raised" =>
                            /\ result[t].value = "NativeError"
                            /\ result[t].built = "none"
                            /\ jflag[f.env] = hist[t].pushed

C10_Witness ==
    \E t \in Threads :
        /\ frame[t].fn \in Writers
        /\ pc[t] = "done"
        /\ result[t].outcome = "raised"
        /\ jflag[frame[t].env] = FALSE

====
